---- MODULE Spec2Model ----
(***************************************************************************)
(* A model of http/httpclient/client.go of jfrog-client-go: the chunk     *)
(* partition and the concurrent chunked download, the retrying Send with  *)
(* its redirect handling, and the composition of a request's headers.     *)
(***************************************************************************)
EXTENDS Integers, Sequences, FiniteSets, TLC

(***************************************************************************)
(* Bounds of the model.                                                    *)
(***************************************************************************)
\* The client's retries (HttpClient.retries) range over 0..MaxRetries.
MaxRetries == 3
\* The server's first MaxScript answers are arbitrary; every later one is 200.
MaxScript == 3
\* In the download specification: SplitCount ranges over 1..MaxChunks, FileSize
\* over 0..MaxFileSize and the client's retries over 0..MaxDlRetries.
MaxChunks == 2
MaxFileSize == 3
MaxDlRetries == 1
\* SplitCount ranges over 1..MaxSplit in the partition specification.
MaxSplit == 6
\* FileSize ranges over 0..SizeFactor*SplitCount in the partition specification.
SizeFactor == 10

VARIABLES
    \* --- chunk partition (downloadChunksConcurrently, lines 606-629) ---
    pFlags,     \* [FileSize, SplitCount] of the call
    pRanges,    \* the ranges computed so far, pRanges[i+1] = [start, end] of chunk i
    \* --- request composition (doRequest 181-199, UploadFileFromReader 336-348) ---
    uberTraceIdToken,   \* the package variable of line 47
    traceArg,           \* <<T>> for the last SetUberTraceIdToken(T), <<>> before any
    req,                \* the request being composed, or NoReq
    wire,               \* the last request handed to client.Do, or NoReq
    \* --- Send and its retry executor (lines 121-226) ---
    sIn,        \* the client and the call: [retries, interceptors]
    stack,      \* the Send calls in progress, the innermost last
    hist,       \* the server's answers so far, one per HTTP exchange
    hits,       \* per URL, the requests the server received
    sOut,       \* what the outermost Send returned, or NoOut
    \* --- DownloadFileConcurrently (lines 508-568, 603-802) ---
    flags,      \* [FileSize, SplitCount] of the call
    mflags,     \* the flags read after the join, NotRead until then
    jcRetries,  \* HttpClient.retries
    dpc,        \* where DownloadFileConcurrently is
    di,         \* the i of the dispatch loop
    errG,       \* the loop's err variable (line 613), written by the workers
    respG,      \* the loop's resp variable (line 614), written by the workers
    wpc,        \* per chunk, where its goroutine is
    wi,         \* per chunk, the loop index of its retry executor
    chunksPaths, respList, errorsList,  \* the result slots, per chunk
    tmp,        \* the temp directory: [exists, files]
    dest,       \* the local directory and the destination file
    dest0,      \* what dest was when the call was entered
    fate,       \* per chunk, what its every GET meets, or "any"
    jRes,       \* what downloadChunksConcurrently returned, or NoRes
    dlOut,      \* what DownloadFileConcurrently returned, or NoRes
    exploded,   \* the calls of utils.ExtractArchive
    \* --- UploadFile (lines 267-363) ---
    up,         \* the call of UploadFile: its executor, results and history
    \* --- downloadFile (lines 397-501) ---
    sd,         \* the call of downloadFile: its executor, results and history
    \* --- downloadFileRange with the Send under it (lines 724-802, 121-157) ---
    cw          \* one chunk worker: both executors, the GETs, the slot

partVars == <<pFlags, pRanges>>
reqVars == <<uberTraceIdToken, traceArg, req, wire>>
sendVars == <<sIn, stack, hist, hits, sOut>>
slotVars == <<chunksPaths, respList, errorsList>>
dlVars == <<flags, mflags, jcRetries, dpc, di, errG, respG, wpc, wi, slotVars,
            tmp, dest, dest0, fate, jRes, dlOut, exploded>>
upVars == <<up>>
sdVars == <<sd>>
cwVars == <<cw>>
vars == <<partVars, reqVars, sendVars, dlVars, upVars, sdVars, cwVars>>
\* What the actions of one part leave alone.
notPart == <<reqVars, sendVars, dlVars, upVars, sdVars, cwVars>>
notReq == <<partVars, sendVars, dlVars, upVars, sdVars, cwVars>>
notSend == <<partVars, reqVars, dlVars, upVars, sdVars, cwVars>>
notDl == <<partVars, reqVars, sendVars, upVars, sdVars, cwVars>>
notUp == <<partVars, reqVars, sendVars, dlVars, sdVars, cwVars>>
notSd == <<partVars, reqVars, sendVars, dlVars, upVars, cwVars>>
notCw == <<partVars, reqVars, sendVars, dlVars, upVars, sdVars>>

(***************************************************************************)
(* The chunk partition.                                                    *)
(***************************************************************************)
\* chunkSize := flags.FileSize / int64(flags.SplitCount)
chunkSize(fl) == fl.FileSize \div fl.SplitCount

\* mod := flags.FileSize % int64(flags.SplitCount)
mod(fl) == fl.FileSize % fl.SplitCount

\* start := chunkSize * int64(i)
ChunkStart(fl, i) == chunkSize(fl) * i

\* A partition whose last chunk does not take the remainder.
ChunkEndNoMod(fl, i) == chunkSize(fl) * (i + 1)

\* end := chunkSize * (int64(i) + 1); if i == flags.SplitCount-1 { end += mod }
ChunkEnd(fl, i) ==
    IF i = fl.SplitCount - 1
    THEN chunkSize(fl) * (i + 1) + mod(fl)
    ELSE chunkSize(fl) * (i + 1)

\* A Range header whose last offset is the chunk's exclusive end.
RangeHeaderExclusiveEnd(start, end) == [first |-> start, last |-> end]

\* The Range header of line 768, "bytes=<start>-<end-1>": both offsets
\* inclusive.
RangeHeader(start, end) == [first |-> start, last |-> end - 1]

(***************************************************************************)
(* Request composition: authentication, user agent, caller headers and the *)
(* trace id, as doRequest and UploadFileFromReader apply them.             *)
(***************************************************************************)
apiKeyPrefix == "AKCp8"
apiKeyMinimalLength == 73

\* strings.HasPrefix(s, prefix)
HasPrefix(s, prefix) ==
    Len(s) >= Len(prefix) /\ SubSeq(s, 1, Len(prefix)) = prefix

\* IsApiKey: strings.HasPrefix(key, apiKeyPrefix) && len(key) >= apiKeyMinimalLength
IsApiKey(key) == HasPrefix(key, apiKeyPrefix) /\ Len(key) >= apiKeyMinimalLength

\* Access tokens of the inputs: none, a plain token, a 73-character API key,
\* the same one character short, and 73 characters without the prefix.
KeyLikeToken == "AKCp8kkkkkkkkkkkkkkkkkkkkkkkkkkkkkkkkkkkkkkkkkkkkkkkkkkkkkkkkkkkkkkkkkkkk"
ShortKeyToken == "AKCp8kkkkkkkkkkkkkkkkkkkkkkkkkkkkkkkkkkkkkkkkkkkkkkkkkkkkkkkkkkkkkkkkkkk"
NoPrefixToken == "BKCp8kkkkkkkkkkkkkkkkkkkkkkkkkkkkkkkkkkkkkkkkkkkkkkkkkkkkkkkkkkkkkkkkkkkk"
AccessTokens == {"", "tok", KeyLikeToken, ShortKeyToken, NoPrefixToken}

\* The header names the model uses, in net/http's canonical form.
HeaderNames == {"Authorization", "X-Jfrog-Art-Api", "User-Agent", "Uber-Trace-Id",
                "Content-Length", "X-Custom"}

\* textproto.CanonicalMIMEHeaderKey, which http.Header.Set applies to the name.
Canon(name) ==
    CASE name = "uber-trace-id"   -> "Uber-Trace-Id"
      [] name = "X-JFrog-Art-Api" -> "X-Jfrog-Art-Api"
      [] name = "user-agent"      -> "User-Agent"
      [] name = "x-custom"        -> "X-Custom"
      [] OTHER                    -> name

uberTraceIdHeader == "uber-trace-id"

\* A fresh request's header: no name has a value.
EmptyHeader == [n \in HeaderNames |-> <<>>]

\* http.Header.Set: the name's values are replaced by the one value.
HeaderSet(h, name, value) == [h EXCEPT ![Canon(name)] = <<value>>]

\* http.Request.SetBasicAuth: Authorization: Basic base64(user:password).
SetBasicAuth(h, user, password) ==
    HeaderSet(h, "Authorization", <<"Basic", user, password>>)

\* setAuthentication without the return that ends the API-key branch.
setAuthenticationFallThrough(h, d) ==
    LET h1 == IF d.ApiKey # ""
              THEN IF d.User # ""
                   THEN SetBasicAuth(h, d.User, d.ApiKey)
                   ELSE HeaderSet(h, "X-JFrog-Art-Api", <<d.ApiKey>>)
              ELSE h
    IN IF d.AccessToken # ""
       THEN IF IsApiKey(d.AccessToken)
            THEN SetBasicAuth(h1, d.User, d.AccessToken)
            ELSE HeaderSet(h1, "Authorization", <<"Bearer", d.AccessToken>>)
       ELSE IF d.Password # "" /\ d.ApiKey = ""
            THEN SetBasicAuth(h1, d.User, d.Password)
            ELSE h1

\* setAuthentication (lines 816-839).
setAuthentication(h, d) ==
    IF d.ApiKey # ""
    THEN IF d.User # ""
         THEN SetBasicAuth(h, d.User, d.ApiKey)
         ELSE HeaderSet(h, "X-JFrog-Art-Api", <<d.ApiKey>>)
    ELSE IF d.AccessToken # ""
    THEN IF IsApiKey(d.AccessToken)
         THEN SetBasicAuth(h, d.User, d.AccessToken)
         ELSE HeaderSet(h, "Authorization", <<"Bearer", d.AccessToken>>)
    ELSE IF d.Password # ""
    THEN SetBasicAuth(h, d.User, d.Password)
    ELSE h

\* utils.GetUserAgent(): the agent string of the client.
UserAgent == "jfrog-client-go"

\* addUserAgentHeader
addUserAgentHeader(h) == HeaderSet(h, "User-Agent", <<UserAgent>>)

\* copyHeaders: req.Header.Set(name, value) for every entry of the caller's map.
copyHeaders(d, h) ==
    [n \in HeaderNames |->
        IF \E k \in DOMAIN d.Headers : Canon(k) = n
        THEN <<(<<d.Headers[CHOOSE k \in DOMAIN d.Headers : Canon(k) = n]>>)>>
        ELSE h[n]]

\* SetUberTraceIdToken: fmt.Sprintf("%s:%s:0:0", traceIdToken, traceIdToken)
FormatTraceId(traceIdToken) == traceIdToken \o ":" \o traceIdToken \o ":0:0"

\* addUberTraceIdHeaderIfSet
addUberTraceIdHeaderIfSet(h, token) ==
    IF token = "" THEN h ELSE HeaderSet(h, uberTraceIdHeader, <<token>>)

\* setRequestHeaders: the caller's headers, then Content-Length.
setRequestHeaders(d, size, h) ==
    HeaderSet(copyHeaders(d, h), "Content-Length", <<ToString(size)>>)

\* The header steps of doRequest (lines 183-186), in order.
DoRequestSteps ==
    <<"setAuthentication", "addUserAgentHeader", "copyHeaders",
      "addUberTraceIdHeaderIfSet">>

\* The header steps of UploadFileFromReader (lines 343-345), in order.
UploadSteps == <<"setRequestHeaders", "setAuthentication", "addUserAgentHeader">>

StepsOf(op) == IF op = "doRequest" THEN DoRequestSteps ELSE UploadSteps

ApplyStep(step, h, d, size, token) ==
    CASE step = "setAuthentication"         -> setAuthentication(h, d)
      [] step = "addUserAgentHeader"        -> addUserAgentHeader(h)
      [] step = "copyHeaders"               -> copyHeaders(d, h)
      [] step = "addUberTraceIdHeaderIfSet" -> addUberTraceIdHeaderIfSet(h, token)
      [] step = "setRequestHeaders"         -> setRequestHeaders(d, size, h)

\* The names a caller puts in HttpClientDetails.Headers, each with one value.
CallerNames == {"uber-trace-id", "X-Custom"}
CallerValue(name) == "caller:" \o name
CallerHeaders ==
    {[k \in S |-> CallerValue(k)] : S \in SUBSET CallerNames}

\* HttpClientDetails: the fields setAuthentication and copyHeaders read.
ClientDetails ==
    [ApiKey : {"", "apikey"}, User : {"", "user"}, AccessToken : AccessTokens,
     Password : {"", "pw"}, Headers : CallerHeaders]

\* The arguments SetUberTraceIdToken is called with.
TraceTokens == {"", "t1"}

\* The upload sizes (fileutils.GetFileSize of the local file).
MaxUploadSize == 0

NoReq == [op |-> "none"]

ReqIdle ==
    /\ uberTraceIdToken = ""
    /\ traceArg = <<>>
    /\ req = NoReq
    /\ wire = NoReq

\* SetUberTraceIdToken(T) (lines 248-250). A request under composition is marked:
\* the token changed while it was built.
SetUberTraceIdToken ==
    \E T \in TraceTokens :
        /\ uberTraceIdToken' = FormatTraceId(T)
        /\ traceArg' = <<T>>
        /\ req' = IF req = NoReq THEN req ELSE [req EXCEPT !.stable = FALSE]
        /\ UNCHANGED <<wire, notReq>>

\* http.NewRequest in createReq (doRequest's request) or in UploadFileFromReader.
\* The previous exchange is over.
NewRequest ==
    /\ req = NoReq
    /\ wire' = NoReq
    /\ \E op \in {"doRequest", "upload"} : \E d \in ClientDetails :
       \E size \in 0..MaxUploadSize :
          req' = [op |-> op, details |-> d, size |-> size, headers |-> EmptyHeader,
                  k |-> 0, traceAtNew |-> traceArg, stable |-> TRUE]
    /\ UNCHANGED <<uberTraceIdToken, traceArg, notReq>>

\* The next header step of the operation composing the request.
HeaderStep ==
    /\ req # NoReq
    /\ req.k < Len(StepsOf(req.op))
    /\ req' = [req EXCEPT
                 !.k = req.k + 1,
                 !.headers = ApplyStep(StepsOf(req.op)[req.k + 1], req.headers,
                                       req.details, req.size, uberTraceIdToken)]
    /\ UNCHANGED <<uberTraceIdToken, traceArg, wire, notReq>>

\* client.Do(req): the request goes on the wire as composed.
ClientDo ==
    /\ req # NoReq
    /\ req.k = Len(StepsOf(req.op))
    /\ wire' = req
    /\ req' = NoReq
    /\ UNCHANGED <<uberTraceIdToken, traceArg, notReq>>

ReqNext == SetUberTraceIdToken \/ NewRequest \/ HeaderStep \/ ClientDo

(***************************************************************************)
(* Send: the retry executor, the handler of lines 128-152 and doRequest.   *)
(***************************************************************************)
StatusOK == 200
StatusFound == 302
StatusTooManyRequests == 429
StatusServiceUnavailable == 503

\* What one HTTP exchange can come to: a response with a status, a redirect
\* response, a transport failure, or the failure of an URL without a scheme.
Status(code) == [kind |-> "status", code |-> code]
Redirect == [kind |-> "redirect", code |-> StatusFound]
NetErr == [kind |-> "neterr", code |-> 0]
BadScheme == [kind |-> "badscheme", code |-> 0]
Outcomes ==
    {Status(StatusOK), Status(404), Status(StatusTooManyRequests),
     Status(StatusServiceUnavailable), Redirect, NetErr, BadScheme}

\* The answers the server may still give after n exchanges.
Allowed(n) == IF n < MaxScript THEN Outcomes ELSE {Status(StatusOK)}

\* The two URLs: each one's redirects point to the other.
Urls == {"A", "B"}
Other(url) == IF url = "A" THEN "B" ELSE "A"

\* PreRetryInterceptors: what each interceptor returns when it is called.
Interceptors == {<<>>, <<TRUE, TRUE>>, <<TRUE, FALSE>>, <<FALSE, TRUE>>}

NoResp == [status |-> 0, url |-> "", open |-> FALSE]
NoBody == [status |-> 0, url |-> ""]
NoOut == [method |-> "none"]

\* The loop over PreRetryInterceptors of shouldRetry, from the k-th on.
RECURSIVE Consult(_, _)
Consult(icpts, k) ==
    IF k > Len(icpts) THEN [retry |-> TRUE, consulted |-> Len(icpts)]
    ELSE IF ~icpts[k] THEN [retry |-> FALSE, consulted |-> k]
    ELSE Consult(icpts, k + 1)

\* A retry test that, like the upload's, takes only 5xx for retryable.
shouldRetryOnly5xx(status, icpts) ==
    IF status < 500 THEN [retry |-> FALSE, consulted |-> 0]
    ELSE Consult(icpts, 1)

\* shouldRetry (lines 159-171): whether to retry, and how many interceptors
\* were called.
shouldRetry(status, icpts) ==
    IF status < 500 /\ status # StatusTooManyRequests
    THEN [retry |-> FALSE, consulted |-> 0]
    ELSE Consult(icpts, 1)

\* The redirect policy with the POST clause dropped.
installsCheckRedirectNoPost(f) == ~f.followRedirect

\* The redirect policy with the no-follow clause dropped.
installsCheckRedirectPostOnly(f) == f.followRedirect /\ f.method = "POST"

\* Line 190: whether doRequest clones the client and installs the CheckRedirect
\* that records the target and fails the redirect.
installsCheckRedirect(f) ==
    ~f.followRedirect \/ (f.followRedirect /\ f.method = "POST")

\* client.Do(req) (line 199) for the answers os of the server, the last of them
\* the one the client stops at: a redirect only when CheckRedirect failed it.
ClientDoResult(f, os) ==
    LET o == os[Len(os)]
        \* the transport followed Len(os) - 1 redirects on its own
        url == IF (Len(os) - 1) % 2 = 0 THEN f.url ELSE Other(f.url)
    IN CASE o.kind = "status" ->
              [resp |-> [status |-> o.code, url |-> url, open |-> TRUE],
               err |-> "nil", redirectUrl |-> ""]
         [] o.kind = "redirect" ->
              \* CheckRedirect failed: the redirect response, its body closed
              [resp |-> [status |-> o.code, url |-> url, open |-> FALSE],
               err |-> "redirect", redirectUrl |-> Other(url)]
         [] OTHER ->
              [resp |-> NoResp, err |-> o.kind, redirectUrl |-> ""]

\* doRequest from client.Do on (lines 199-226), short of the nested SendPost:
\* "post" says that lines 207-211 re-issue the POST.
doRequest(f, os) ==
    LET r == ClientDoResult(f, os)
    IN IF r.err # "nil" /\ r.redirectUrl # ""
       THEN IF ~f.followRedirect
            THEN [resp |-> r.resp, respBody |-> NoBody, redirectUrl |-> r.redirectUrl,
                  err |-> r.err, post |-> FALSE]
            ELSE IF f.method = "POST"
            THEN [resp |-> r.resp, respBody |-> NoBody, redirectUrl |-> r.redirectUrl,
                  err |-> r.err, post |-> TRUE]
            ELSE [resp |-> r.resp, respBody |-> NoBody, redirectUrl |-> r.redirectUrl,
                  err |-> r.err, post |-> FALSE]
       ELSE IF r.err # "nil"
       THEN [resp |-> r.resp, respBody |-> NoBody, redirectUrl |-> r.redirectUrl,
             err |-> r.err, post |-> FALSE]
       ELSE IF f.closeBody
       THEN [resp |-> [r.resp EXCEPT !.open = FALSE],
             respBody |-> [status |-> r.resp.status, url |-> r.resp.url],
             redirectUrl |-> r.redirectUrl, err |-> "nil", post |-> FALSE]
       ELSE [resp |-> r.resp, respBody |-> NoBody, redirectUrl |-> r.redirectUrl,
             err |-> "nil", post |-> FALSE]

\* A handler that asks for another attempt whatever the response.
SendHandlerAlwaysRetry(resp, err, icpts) ==
    IF err # "nil"
    THEN [retry |-> TRUE, err |-> err, consulted |-> 0]
    ELSE [retry |-> TRUE, err |-> "nil", consulted |-> 0]

\* The ExecutionHandler of Send after doRequest returned (lines 135-151): what it
\* returns to the executor.
SendHandler(resp, err, icpts) ==
    IF err # "nil"
    THEN IF err = "badscheme"
         THEN [retry |-> FALSE, err |-> "badscheme", consulted |-> 0]
         ELSE [retry |-> TRUE, err |-> err, consulted |-> 0]
    ELSE IF resp = NoResp
    THEN [retry |-> FALSE, err |-> "empty", consulted |-> 0]
    ELSE LET sr == shouldRetry(resp.status, icpts)
         IN [retry |-> sr.retry, err |-> "nil", consulted |-> sr.consulted]

\* RetryExecutor.Execute after the handler of attempt i returned: stop with the
\* handler's error, sleep before the next attempt, or give up after the last.
ExecuteAfter(retries, i, h) ==
    IF ~h.retry THEN [pc |-> "return", err |-> h.err]
    ELSE IF i < retries THEN [pc |-> "sleep", err |-> h.err]
    ELSE [pc |-> "return", err |-> IF h.err # "nil" THEN h.err ELSE "exhausted"]

\* A call of Send: its arguments, the loop index of its executor, the results
\* its handler assigns, and counts of what it did.  The handler assigns resp
\* anew at line 134: a response it held until then with its body open is no
\* longer reachable and its body was never closed ("dropped").
NewFrame(method, url, followRedirect, closeBody) ==
    [method |-> method, url |-> url, followRedirect |-> followRedirect,
     closeBody |-> closeBody,
     content |-> IF method = "POST" THEN "payload" ELSE "nil",
     pc |-> "handler", i |-> 0,
     resp |-> NoResp, respBody |-> NoBody, redirectUrl |-> "", err |-> "nil",
     derr |-> "nil",        \* the error of the last doRequest
     retry |-> FALSE,       \* the handler's last shouldRetry
     consulted |-> 0,       \* interceptors called by the last shouldRetry
     calls |-> 0,           \* handler invocations
     waits |-> 0,           \* sleeps between attempts
     redirected |-> FALSE,  \* CheckRedirect stopped the last attempt's exchange
     auto |-> FALSE,        \* an exchange was left to the transport's own redirects
     sendPosts |-> 0,       \* SendPost calls of the last attempt
     reposts |-> 0,         \* POSTs the last attempt's SendPost sent to its URL
     postContent |-> "nil", \* the content the last attempt's SendPost was given
     dropped |-> 0,         \* responses overwritten with their body open
     first |-> Redirect,    \* the first answer this call's URL gave
     postFirst |-> Redirect] \* the first answer the last attempt's SendPost got

SendIdle ==
    /\ sIn = [retries |-> 0, interceptors |-> <<>>]
    /\ stack = <<>>
    /\ hist = <<>>
    /\ hits = [u \in Urls |-> 0]
    /\ sOut = NoOut

SendInit ==
    /\ \E r \in 0..MaxRetries : \E ic \in Interceptors :
          sIn = [retries |-> r, interceptors |-> ic]
    /\ \E m \in {"GET", "POST"} : \E fr \in BOOLEAN : \E cb \in BOOLEAN :
          stack = <<NewFrame(m, "A", fr, cb)>>
    /\ hist = <<>>
    /\ hits = [u \in Urls |-> 0]
    /\ sOut = NoOut

Top == stack[Len(stack)]
SetTop(f) == [stack EXCEPT ![Len(stack)] = f]

\* The answers one client.Do can meet: one, or with the transport following
\* redirects itself, some redirects and then one that is none.
Answers(auto) ==
    {<<o>> : o \in IF auto THEN Allowed(Len(hist)) \ {Redirect}
                   ELSE Allowed(Len(hist))}
    \cup (IF auto /\ Len(hist) + 1 < MaxScript
          THEN {<<Redirect, o>> : o \in Allowed(Len(hist) + 1) \ {Redirect}}
          ELSE {})

\* The hits of the URLs when a client.Do on url meets the answers os.
HitsAfter(url, os) ==
    [u \in Urls |->
        hits[u] + Cardinality({k \in 1..Len(os) :
                                  (IF (k - 1) % 2 = 0 THEN url ELSE Other(url)) = u})]

\* One invocation of Send's ExecutionHandler that ends in doRequest: the
\* exchange, the handler's answer and the executor's step after it.
SendAttempt ==
    /\ stack # <<>>
    /\ Top.pc = "handler"
    /\ LET f == Top
           auto == ~installsCheckRedirect(f)
       IN \E os \in Answers(auto) :
            LET d == doRequest(f, os)
                h == SendHandler(d.resp, d.err, sIn.interceptors)
                x == ExecuteAfter(sIn.retries, f.i, h)
                g == [f EXCEPT !.resp = d.resp, !.respBody = d.respBody,
                               !.redirectUrl = d.redirectUrl, !.derr = d.err,
                               !.calls = f.calls + 1,
                               !.dropped = f.dropped + (IF f.resp.open THEN 1 ELSE 0),
                               !.redirected = (d.redirectUrl # ""),
                               !.auto = f.auto \/ auto,
                               !.sendPosts = 0, !.reposts = 0,
                               !.postContent = "nil",
                               !.first = IF f.calls = 0 THEN os[1] ELSE f.first]
            IN /\ ~d.post
               /\ stack' = SetTop([g EXCEPT !.retry = h.retry,
                                            !.consulted = h.consulted,
                                            !.err = x.err, !.pc = x.pc])
               /\ hist' = hist \o os
               /\ hits' = HitsAfter(f.url, os)
    /\ UNCHANGED <<sIn, sOut, notSend>>

\* An invocation of the handler whose POST was redirected with followRedirect:
\* doRequest calls SendPost on the redirect's target (lines 207-209).
SendPostRedirect ==
    /\ stack # <<>>
    /\ Top.pc = "handler"
    /\ LET f == Top
           auto == ~installsCheckRedirect(f)
       IN \E os \in Answers(auto) :
            LET d == doRequest(f, os)
                g == [f EXCEPT !.resp = d.resp, !.respBody = d.respBody,
                               !.redirectUrl = d.redirectUrl, !.derr = d.err,
                               !.calls = f.calls + 1,
                               !.dropped = f.dropped + (IF f.resp.open THEN 1 ELSE 0),
                               !.redirected = TRUE,
                               !.auto = f.auto \/ auto,
                               !.sendPosts = 1, !.reposts = 0,
                               !.postContent = f.content,
                               !.first = IF f.calls = 0 THEN os[1] ELSE f.first,
                               !.pc = "nested"]
            IN /\ d.post
               /\ stack' = Append(SetTop(g),
                                  [NewFrame("POST", d.redirectUrl, TRUE, TRUE)
                                     EXCEPT !.content = f.content])
               /\ hist' = hist \o os
               /\ hits' = HitsAfter(f.url, os)
    /\ UNCHANGED <<sIn, sOut, notSend>>

\* time.Sleep(RetriesIntervalMilliSecs) and the loop's next iteration.
SendSleep ==
    /\ stack # <<>>
    /\ Top.pc = "sleep"
    /\ stack' = SetTop([Top EXCEPT !.pc = "handler", !.i = Top.i + 1,
                                   !.waits = Top.waits + 1])
    /\ UNCHANGED <<sIn, hist, hits, sOut, notSend>>

\* The nested SendPost returns into doRequest (lines 209-211), doRequest into
\* the handler, the handler into the executor.
SendPostReturn ==
    /\ Len(stack) > 1
    /\ Top.pc = "return"
    /\ LET n == Top
           f == stack[Len(stack) - 1]
           h == SendHandler(n.resp, n.err, sIn.interceptors)
           x == ExecuteAfter(sIn.retries, f.i, h)
       IN stack' = [SubSeq(stack, 1, Len(stack) - 1) EXCEPT ![Len(stack) - 1] =
                      [f EXCEPT !.resp = n.resp, !.respBody = n.respBody,
                                !.redirectUrl = "", !.derr = n.err,
                                !.reposts = n.calls, !.postFirst = n.first,
                                !.dropped = f.dropped + (IF f.resp.open THEN 1 ELSE 0),
                                !.retry = h.retry, !.consulted = h.consulted,
                                !.err = x.err, !.pc = x.pc]]
    /\ UNCHANGED <<sIn, hist, hits, sOut, notSend>>

\* The outermost Send returns to its caller.
SendReturn ==
    /\ Len(stack) = 1
    /\ Top.pc = "return"
    /\ sOut' = Top
    /\ stack' = <<>>
    /\ UNCHANGED <<sIn, hist, hits, notSend>>

SendNext ==
    \/ SendAttempt
    \/ SendPostRedirect
    \/ SendSleep
    \/ SendPostReturn
    \/ SendReturn

(***************************************************************************)
(* The partition as a state machine.                                       *)
(***************************************************************************)
PartIdle ==
    /\ pFlags = [FileSize |-> 0, SplitCount |-> 1]
    /\ pRanges = <<>>

PartInit ==
    /\ \E n \in 1..MaxSplit : \E size \in 0..(SizeFactor * n) :
          pFlags = [FileSize |-> size, SplitCount |-> n]
    /\ pRanges = <<>>

\* One iteration of the dispatch loop: the range of chunk i = Len(pRanges),
\* and the Range header the goroutine started with it sends (line 768).
PartitionStep ==
    /\ Len(pRanges) < pFlags.SplitCount
    /\ LET i == Len(pRanges)
           start == ChunkStart(pFlags, i)
           end == ChunkEnd(pFlags, i)
       IN pRanges' = Append(pRanges, [start |-> start, end |-> end,
                                      header |-> RangeHeader(start, end)])
    /\ UNCHANGED <<pFlags, notPart>>

PartNext == PartitionStep

(***************************************************************************)
(* DownloadFileConcurrently: the chunk workers, the join, the merge.       *)
(***************************************************************************)
StatusPartialContent == 206

\* Errors are strings, "nil" is the nil error.
NoErr == "nil"
\* A chunk response: its status and the chunk whose request it answers.
NoChunkResp == [status |-> 0, chunk |-> -1]
ChunkResp(status, i) == [status |-> status, chunk |-> i]
\* The empty string as a file name.
NoPath == <<>>
NoRes == [set |-> FALSE]
Res(resp, err) == [set |-> TRUE, resp |-> resp, err |-> err, panic |-> FALSE]
\* The nil dereference of line 652 unwinds the call: no value is returned.
Panic == [set |-> TRUE, resp |-> NoChunkResp, err |-> NoErr, panic |-> TRUE]

\* The resource the server holds: FileSize distinct bytes.
Resource(size) == [k \in 1..size |-> k]
\* A server that honours the range answers exactly the bytes it names.
ServerRange(size, range) == SubSeq(Resource(size), range.first + 1, range.last + 1)

\* What one call of doDownloadFileRange can meet: a 206, a 404, a 503 that the
\* nested Send hands back without error, or a failure of the nested Send
\* (line 770) or of the copy (line 797).
Outcomes206 == {"ok206", "s404", "s503", "failed"}
\* The error of a failed call for chunk i.
ChunkErr(i) == "part " \o ToString(i)

\* doDownloadFileRange (lines 754-802) for chunk i, a-th call, outcome o:
\* what it returns and the temp file os.CreateTemp made for it.  A failing
\* io.Copy is taken to have written nothing.
doDownloadFileRange(fl, i, a, o) ==
    LET name == <<i, a>>
        body == ServerRange(fl.FileSize,
                            RangeHeader(ChunkStart(fl, i), ChunkEnd(fl, i)))
        ret(fileName, resp, err, made, data) ==
            [fileName |-> fileName, resp |-> resp, err |-> err,
             made |-> made, file |-> [name |-> name, data |-> data]]
    IN CASE o = "failed"  -> ret(NoPath, NoChunkResp, ChunkErr(i), TRUE, <<>>)
         [] o = "s404"    -> ret(NoPath, ChunkResp(404, i), NoErr, TRUE, <<>>)
         [] o = "s503"    -> ret(NoPath, ChunkResp(StatusServiceUnavailable, i), NoErr, TRUE, <<>>)
         [] o = "ok206"   -> ret(name, ChunkResp(StatusPartialContent, i), NoErr, TRUE, body)

\* A handler that drops the error of doDownloadFileRange.
RangeHandlerDropErr(resp, err) ==
    IF err # NoErr \/ resp = NoChunkResp THEN [retry |-> FALSE, err |-> NoErr]
    ELSE IF resp.status < 500 THEN [retry |-> FALSE, err |-> NoErr]
    ELSE [retry |-> TRUE, err |-> NoErr]

\* The ExecutionHandler of downloadFileRange (lines 731-747).
RangeHandler(resp, err) ==
    IF err # NoErr THEN [retry |-> TRUE, err |-> err]
    ELSE IF resp = NoChunkResp THEN [retry |-> FALSE, err |-> "empty response"]
    ELSE IF resp.status < 500 THEN [retry |-> FALSE, err |-> NoErr]
    ELSE [retry |-> TRUE, err |-> NoErr]

\* A join that scans the responses before the errors.
JoinRespFirst(N, resps, errs) ==
    LET bad == {i \in 0..(N - 1) : resps[i] # NoChunkResp
                                   /\ resps[i].status # StatusPartialContent}
        Min(S) == CHOOSE x \in S : \A y \in S : x <= y
        failed == {i \in 0..(N - 1) : errs[i] # NoErr}
    IN IF bad # {} THEN Res(resps[Min(bad)], NoErr)
       ELSE IF failed # {} THEN Res(NoChunkResp, errs[Min(failed)])
       ELSE Res(resps[N - 1], NoErr)

\* The scans after wg.Wait (lines 645-658): the first error in index order,
\* else the first response that is not 206, else the last response.  The second
\* scan dereferences every slot up to the first non-206 one.
Join(N, resps, errs) ==
    LET Min(S) == CHOOSE x \in S : \A y \in S : x <= y
        failed == {i \in 0..(N - 1) : errs[i] # NoErr}
        stop == {i \in 0..(N - 1) : resps[i] = NoChunkResp
                                    \/ resps[i].status # StatusPartialContent}
    IN IF failed # {} THEN Res(NoChunkResp, errs[Min(failed)])
       ELSE IF stop = {} THEN Res(resps[N - 1], NoErr)
       ELSE IF resps[Min(stop)] = NoChunkResp THEN Panic
       ELSE Res(resps[Min(stop)], NoErr)

\* Digests: a digest names its algorithm and determines the bytes digested.
Digest(alg, data) == <<alg, data>>
NoSha == <<>>
\* Bytes no resource holds.
OtherData == <<0>>

\* handleExpectedSha (lines 712-722).
handleExpectedSha(expectedSha1, expectedSha256) ==
    IF Len(expectedSha1) > 0 THEN [expectedSha |-> expectedSha1, alg |-> "sha1"]
    ELSE IF Len(expectedSha256) > 0 THEN [expectedSha |-> expectedSha256, alg |-> "sha256"]
    ELSE [expectedSha |-> NoSha, alg |-> "none"]

\* validateChecksum (lines 704-710).
validateChecksum(expectedSha, actualSha) ==
    IF actualSha # expectedSha THEN "checksum mismatch" ELSE NoErr

\* os.Open of a chunk path: the file of that name in the temp directory.
HasFile(dir, path) == dir.exists /\ \E f \in dir.files : f.name = path
FileData(dir, path) == (CHOOSE f \in dir.files : f.name = path).data

\* A merge that puts each chunk in front of what it has written.
RECURSIVE MergeLoopPrepend(_, _, _, _, _, _)
MergeLoopPrepend(i, N, paths, dir, failAt, acc) ==
    IF i = N THEN [data |-> acc, err |-> NoErr]
    ELSE IF ~HasFile(dir, paths[i]) THEN [data |-> acc, err |-> "open chunk"]
    ELSE IF i = failAt THEN [data |-> acc, err |-> "copy chunk"]
    ELSE MergeLoopPrepend(i + 1, N, paths, dir, failAt, FileData(dir, paths[i]) \o acc)

\* The loop of mergeChunks from chunk i on (lines 676-698): acc is what the
\* writer received so far; failAt is the chunk whose copy fails, if any.
RECURSIVE MergeLoop(_, _, _, _, _, _)
MergeLoop(i, N, paths, dir, failAt, acc) ==
    IF i = N THEN [data |-> acc, err |-> NoErr]
    ELSE IF ~HasFile(dir, paths[i]) THEN [data |-> acc, err |-> "open chunk"]
    ELSE IF i = failAt THEN [data |-> acc, err |-> "copy chunk"]
    ELSE MergeLoop(i + 1, N, paths, dir, failAt, acc \o FileData(dir, paths[i]))

\* A merge that never verifies.
mergeChunksNeverVerify(N, paths, dir, mf, failAt) ==
    MergeLoop(0, N, paths, dir, failAt, <<>>)

\* mergeChunks (lines 661-703) once the destination is open: the bytes the
\* destination receives and the error returned.  The digest is fed the same
\* bytes as the destination (io.MultiWriter, line 672).
mergeChunks(N, paths, dir, mf, failAt) ==
    LET sha == handleExpectedSha(mf.ExpectedSha1, mf.ExpectedSha256)
        m == MergeLoop(0, N, paths, dir, failAt, <<>>)
    IN IF m.err # NoErr THEN m
       ELSE IF Len(sha.expectedSha) > 0 /\ ~mf.SkipChecksum
       THEN [data |-> m.data,
             err |-> validateChecksum(sha.expectedSha, Digest(sha.alg, m.data))]
       ELSE m

\* fileutils.CreateTempDir / RemoveTempDir: the directory and all it holds.
NoDir == [exists |-> FALSE, files |-> {}]
NewDir == [exists |-> TRUE, files |-> {}]
RemoveTempDir(dir) == NoDir
\* A deferred call that leaves the directory in place.
DeferredCleanupSkipped(dir) == dir
\* The deferred function of DownloadFileConcurrently (lines 515-517).
DeferredCleanup(dir) == RemoveTempDir(dir)

\* The fields of flags that the call reads only after line 536 (Explode at
\* line 560, the others in mergeChunks).  The caller fixes them before the
\* call; nothing before line 538 depends on them, so they are drawn where the
\* call gets there and are NotRead until then.
NotRead == [ExpectedSha1 |-> NoSha, ExpectedSha256 |-> NoSha,
            SkipChecksum |-> FALSE, Explode |-> FALSE]
ExpectedShas(alg, size) ==
    {NoSha, Digest(alg, Resource(size)), Digest(alg, OtherData)}
MergeFlags(size) ==
    [ExpectedSha1 : ExpectedShas("sha1", size),
     ExpectedSha256 : ExpectedShas("sha256", size),
     SkipChecksum : BOOLEAN, Explode : BOOLEAN]

\* The local side before the call: nothing there, or an older file.
NoDest == [dir |-> FALSE, exists |-> FALSE, data |-> <<>>]
OldDest == [dir |-> TRUE, exists |-> TRUE, data |-> OtherData]

Chunks == 0..(flags.SplitCount - 1)

DlIdle ==
    /\ flags = [FileSize |-> 0, SplitCount |-> 1]
    /\ mflags = NotRead
    /\ jcRetries = 0
    /\ dpc = "idle"
    /\ di = 0
    /\ errG = NoErr
    /\ respG = NoChunkResp
    /\ wpc = [i \in 0..0 |-> "unstarted"]
    /\ wi = [i \in 0..0 |-> 0]
    /\ chunksPaths = [i \in 0..0 |-> NoPath]
    /\ respList = [i \in 0..0 |-> NoChunkResp]
    /\ errorsList = [i \in 0..0 |-> NoErr]
    /\ tmp = NoDir
    /\ dest = NoDest
    /\ dest0 = NoDest
    /\ fate = [i \in 0..0 |-> "any"]
    /\ jRes = NoRes
    /\ dlOut = Res(NoChunkResp, NoErr)
    /\ exploded = 0

\* The call is entered: the slices of lines 519, 609 and 611 hold zero values.
\* The GETs of a chunk meet anything (fate "any"), or with fixed, always the
\* same outcome.
DlStart(fixed) ==
    /\ \E n \in 1..MaxChunks : \E size \in 0..MaxFileSize :
          /\ flags = [FileSize |-> size, SplitCount |-> n]
          /\ fate \in [0..(n - 1) ->
                          IF fixed THEN Outcomes206 ELSE {"any"}]
          /\ wpc = [i \in 0..(n - 1) |-> "unstarted"]
          /\ wi = [i \in 0..(n - 1) |-> 0]
          /\ chunksPaths = [i \in 0..(n - 1) |-> NoPath]
          /\ respList = [i \in 0..(n - 1) |-> NoChunkResp]
          /\ errorsList = [i \in 0..(n - 1) |-> NoErr]
    /\ mflags = NotRead
    /\ jcRetries \in 0..MaxDlRetries
    /\ dpc = "start"
    /\ di = 0
    /\ errG = NoErr
    /\ respG = NoChunkResp
    /\ tmp = NoDir
    /\ dest \in {NoDest, OldDest}
    /\ dest0 = dest
    /\ jRes = NoRes
    /\ dlOut = Res(NoChunkResp, NoErr)
    /\ exploded = 0

\* A call against a server free to answer each GET as it likes.
DlInit == DlStart(FALSE)

\* Lines 511-517: the temp directory, and the deferred removal once it exists.
CreateTempDir ==
    /\ dpc = "start"
    /\ \/ /\ tmp' = NewDir
          /\ dpc' = "dispatch"
          /\ UNCHANGED dlOut
       \/ /\ dlOut' = Res(NoChunkResp, "createTempDir")
          /\ dpc' = "done"
          /\ UNCHANGED tmp
    /\ UNCHANGED <<flags, fate, dest0, mflags, jcRetries, di, errG, respG, wpc, wi,
                   slotVars, dest, jRes, exploded, notDl>>

\* One iteration of the loop of line 615 that passes both checks and starts
\* the goroutine of chunk di.  The reads of err and resp (lines 618, 621) are
\* not ordered with the workers' writes (lines 635, 638): a read may still
\* see nil, so the iteration can always go on.
Spawn ==
    /\ dpc = "dispatch"
    /\ di < flags.SplitCount
    /\ wpc' = [wpc EXCEPT ![di] = "running"]
    /\ di' = di + 1
    /\ UNCHANGED <<flags, fate, dest0, mflags, jcRetries, dpc, errG, respG, wi, slotVars,
                   tmp, dest, jRes, dlOut, exploded, notDl>>

\* An iteration that sees what a worker wrote and breaks (lines 618-623).
Break ==
    /\ dpc = "dispatch"
    /\ di < flags.SplitCount
    /\ \/ errG # NoErr
       \/ respG # NoChunkResp /\ respG.status # StatusPartialContent
    /\ dpc' = "wait"
    /\ UNCHANGED <<flags, fate, dest0, mflags, jcRetries, di, errG, respG, wpc, wi,
                   slotVars, tmp, dest, jRes, dlOut, exploded, notDl>>

\* The loop condition fails.
LoopEnd ==
    /\ dpc = "dispatch"
    /\ di = flags.SplitCount
    /\ dpc' = "wait"
    /\ UNCHANGED <<flags, fate, dest0, mflags, jcRetries, di, errG, respG, wpc, wi,
                   slotVars, tmp, dest, jRes, dlOut, exploded, notDl>>

\* One turn of the executor of downloadFileRange (lines 727-751): the handler
\* runs doDownloadFileRange; the executor goes round again or returns, and on
\* return line 632 stores the three results in the chunk's slots.
WorkerAttempt ==
    \E i \in Chunks :
      \E o \in (IF fate[i] = "any" THEN Outcomes206 ELSE {fate[i]}) :
        /\ wpc[i] = "running"
        /\ LET r == doDownloadFileRange(flags, i, wi[i], o)
               x == ExecuteAfter(jcRetries, wi[i], RangeHandler(r.resp, r.err))
           IN /\ tmp' = IF r.made
                        THEN [tmp EXCEPT !.files = @ \cup {r.file}]
                        ELSE tmp
              /\ IF x.pc = "sleep"
                 THEN /\ wi' = [wi EXCEPT ![i] = @ + 1]
                      /\ UNCHANGED <<wpc, slotVars>>
                 ELSE /\ chunksPaths' = [chunksPaths EXCEPT ![i] = r.fileName]
                      /\ respList' = [respList EXCEPT ![i] = r.resp]
                      /\ errorsList' = [errorsList EXCEPT ![i] = x.err]
                      /\ wpc' = [wpc EXCEPT ![i] = "stored"]
                      /\ UNCHANGED wi
        /\ UNCHANGED <<flags, fate, dest0, mflags, jcRetries, dpc, di, errG, respG, dest,
                       jRes, dlOut, exploded, notDl>>

\* Lines 634-640: the worker reports a failure in err and resp, then wg.Done.
WorkerFlag ==
    \E i \in Chunks :
        /\ wpc[i] = "stored"
        /\ errG' = IF errorsList[i] # NoErr THEN errorsList[i] ELSE errG
        /\ respG' = IF respList[i] # NoChunkResp
                       /\ respList[i].status # StatusPartialContent
                    THEN respList[i] ELSE respG
        /\ wpc' = [wpc EXCEPT ![i] = "done"]
        /\ UNCHANGED <<flags, fate, dest0, mflags, jcRetries, dpc, di, wi, slotVars, tmp,
                       dest, jRes, dlOut, exploded, notDl>>

\* A caller that checks the error of the join but not its status.
AfterJoinErrOnly(j) ==
    IF j.panic \/ j.err # NoErr THEN "return" ELSE "prepare"

\* Lines 530-536: the call goes on only with a 206 and no error.
AfterJoin(j) ==
    IF j.panic \/ j.err # NoErr \/ j.resp.status # StatusPartialContent
    THEN "return" ELSE "prepare"

\* A wait that returns at once.
WaitNoWait(w) == TRUE

\* wg.Wait (line 643) returns when every worker counted by wg.Add (line 624)
\* has called wg.Done (line 640).
Wait(w) == \A i \in DOMAIN w : w[i] \in {"unstarted", "done"}

\* wg.Wait returns when every started worker is done; downloadChunksConcurrently
\* returns the join, and lines 529-536 return unless it is a 206 response.
JoinChunks ==
    /\ dpc = "wait"
    /\ Wait(wpc)
    /\ LET j == Join(flags.SplitCount, respList, errorsList)
       IN /\ jRes' = j
          /\ dlOut' = j
          /\ dpc' = AfterJoin(j)
          /\ IF AfterJoin(j) = "return"
             THEN UNCHANGED mflags
             ELSE mflags' \in MergeFlags(flags.FileSize)
    /\ UNCHANGED <<flags, fate, dest0, jcRetries, di, errG, respG, wpc, wi,
                   slotVars, tmp, dest, exploded, notDl>>

\* Lines 538-551: the local directory is made, an existing destination removed.
Prepare ==
    /\ dpc = "prepare"
    /\ \/ /\ dlOut' = [dlOut EXCEPT !.err = "mkdir"]
          /\ dpc' = "return"
          /\ UNCHANGED dest
       \/ /\ dest.exists
          /\ dlOut' = [dlOut EXCEPT !.err = "remove"]
          /\ dpc' = "return"
          /\ dest' = [dest EXCEPT !.dir = TRUE]
       \/ /\ dest' = [dir |-> TRUE, exists |-> FALSE, data |-> <<>>]
          /\ dpc' = "merge"
          /\ UNCHANGED dlOut
    /\ UNCHANGED <<flags, fate, dest0, mflags, jcRetries, di, errG, respG, wpc, wi,
                   slotVars, tmp, jRes, exploded, notDl>>

\* A caller that extracts whatever mergeChunks returned.
AfterMergeIgnoreErr(err, explode) ==
    IF explode THEN "explode" ELSE "return"

\* Lines 556-560: a merge error returns; otherwise Explode decides.
AfterMerge(err, explode) ==
    IF err = NoErr /\ explode THEN "explode" ELSE "return"

\* Line 555: mergeChunks.  The destination is opened for appending, so it
\* keeps what it held; the copy of any one chunk may fail.
Merge ==
    /\ dpc = "merge"
    /\ \/ /\ dlOut' = [dlOut EXCEPT !.err = "open dest"]
          /\ dpc' = "return"
          /\ UNCHANGED dest
       \/ \E failAt \in 0..flags.SplitCount :
             LET m == mergeChunks(flags.SplitCount, chunksPaths, tmp, mflags, failAt)
             IN /\ dest' = [dest EXCEPT !.exists = TRUE,
                                        !.data = (IF dest.exists THEN @ ELSE <<>>)
                                                 \o m.data]
                /\ dlOut' = [dlOut EXCEPT !.err = m.err]
                /\ dpc' = AfterMerge(m.err, mflags.Explode)
    /\ UNCHANGED <<flags, fate, dest0, mflags, jcRetries, di, errG, respG, wpc, wi,
                   slotVars, tmp, jRes, exploded, notDl>>

\* Lines 560-564: utils.ExtractArchive, which may fail.
Explode ==
    /\ dpc = "explode"
    /\ exploded' = exploded + 1
    /\ dpc' = "return"
    /\ \/ UNCHANGED dlOut
       \/ dlOut' = [dlOut EXCEPT !.err = "extract"]
    /\ UNCHANGED <<flags, fate, dest0, mflags, jcRetries, di, errG, respG, wpc, wi,
                   slotVars, tmp, dest, jRes, notDl>>

\* The call returns (or unwinds): the deferred function runs.
Return ==
    /\ dpc = "return"
    /\ tmp' = DeferredCleanup(tmp)
    /\ dpc' = "done"
    /\ UNCHANGED <<flags, fate, dest0, mflags, jcRetries, di, errG, respG, wpc, wi,
                   slotVars, dest, jRes, dlOut, exploded, notDl>>

DlNext ==
    \/ CreateTempDir
    \/ Spawn
    \/ Break
    \/ LoopEnd
    \/ WorkerAttempt
    \/ WorkerFlag
    \/ JoinChunks
    \/ Prepare
    \/ Merge
    \/ Explode
    \/ Return

(***************************************************************************)
(* UploadFile: the retry executor around doUploadFile.                     *)
(***************************************************************************)
StatusCreated == 201
StatusAccepted == 202

\* What one call of doUploadFile can meet: the local file cannot be opened,
\* client.Do fails, the body of an accepted response cannot be read, or the
\* server answers the PUT with a status.
UploadStatuses == {StatusOK, StatusCreated, StatusAccepted, 403, 404,
                   StatusServiceUnavailable}
UploadOutcomes ==
    {[kind |-> k, code |-> 0] : k \in {"openFail", "doErr", "readFail"}}
    \cup {[kind |-> "status", code |-> c] : c \in UploadStatuses}

NoUpResp == [status |-> 0]
NoUpBody == "nil"
StatusLine(code) == "status " \o ToString(code)

\* errorutils.CheckResponseStatus: nil for an expected status, else an error
\* whose message holds the status line.
CheckResponseStatus(code, expected) ==
    IF code \in expected THEN NoErr ELSE StatusLine(code)

\* doUploadFile and UploadFileFromReader (lines 299-363): what the call
\* returns, and whether it sent a PUT.
doUploadFile(o) ==
    CASE o.kind = "openFail" ->
            [resp |-> NoUpResp, body |-> NoUpBody, err |-> "open", put |-> FALSE]
      [] o.kind = "doErr" ->
            [resp |-> NoUpResp, body |-> NoUpBody, err |-> "do", put |-> TRUE]
      [] o.kind = "readFail" ->
            [resp |-> [status |-> StatusOK], body |-> NoUpBody, err |-> "read",
             put |-> TRUE]
      [] o.kind = "status" ->
            LET e == CheckResponseStatus(o.code,
                        {StatusCreated, StatusOK, StatusAccepted})
            IN [resp |-> [status |-> o.code],
                body |-> IF e = NoErr THEN "body" ELSE NoUpBody,
                err |-> e, put |-> TRUE]

\* The ExecutionHandler of UploadFile (lines 277-292).
UploadHandler(resp, err) ==
    IF err # NoErr THEN [retry |-> TRUE, err |-> err]
    ELSE IF resp = NoUpResp THEN [retry |-> FALSE, err |-> "empty response"]
    ELSE IF resp.status < 500 THEN [retry |-> FALSE, err |-> NoErr]
    ELSE [retry |-> TRUE, err |-> NoErr]

NoUp == [pc |-> "idle", retries |-> 0, i |-> 0, resp |-> NoUpResp,
         body |-> NoUpBody, err |-> NoErr, puts |-> 0, seen |-> <<>>]
UpIdle == up = NoUp

\* The call is entered with jc.retries between 0 and MaxRetries.
UpInit ==
    \E r \in 0..MaxRetries : up = [NoUp EXCEPT !.pc = "handler", !.retries = r]

\* One turn of the executor: the handler runs doUploadFile, the executor
\* stops, or goes on to sleep.
UploadAttempt ==
    /\ up.pc = "handler"
    /\ \E o \in UploadOutcomes :
          LET r == doUploadFile(o)
              x == ExecuteAfter(up.retries, up.i, UploadHandler(r.resp, r.err))
          IN up' = [up EXCEPT !.resp = r.resp, !.body = r.body,
                              !.err = IF x.pc = "return" THEN x.err ELSE r.err,
                              !.puts = @ + (IF r.put THEN 1 ELSE 0),
                              !.seen = Append(@, o),
                              !.pc = x.pc]
    /\ UNCHANGED notUp

\* The wait between two attempts.
UploadSleep ==
    /\ up.pc = "sleep"
    /\ up' = [up EXCEPT !.pc = "handler", !.i = @ + 1]
    /\ UNCHANGED notUp

\* Line 296: UploadFile returns resp, body and the executor's error.
UploadReturn ==
    /\ up.pc = "return"
    /\ up' = [up EXCEPT !.pc = "done"]
    /\ UNCHANGED notUp

UpNext == UploadAttempt \/ UploadSleep \/ UploadReturn

(***************************************************************************)
(* downloadFile: the single-stream download and its retry executor.        *)
(***************************************************************************)
\* The bytes the server sends with a 200.
Served == Resource(1)

\* DownloadFileDetails: the fields saveToFile reads.
FileDetails ==
    [ExpectedSha1 : ExpectedShas("sha1", 1),
     ExpectedSha256 : ExpectedShas("sha256", 1),
     SkipChecksum : BOOLEAN]

\* What one call of doDownloadFile can meet: the GET fails, the GET fails at
\* once because the client's context is cancelled (the request is bound to
\* it, lines 112-113), a redirect is refused, the server answers 404 or 503,
\* or it answers 200 and the file cannot be created, the copy fails, the file
\* is saved, or it is saved and the extraction fails.
DownloadOutcomes ==
    {"sendErr", "cancelled", "redirect", "s404", "s503", "createFail",
     "copyFail", "saved", "extractFail"}
\* context.Canceled
Canceled == "context canceled"

NoFile == [exists |-> FALSE, data |-> <<>>]

\* saveToFile (lines 461-501) with the outcome o: the file it leaves and the
\* error it returns.  The digest is fed what the file receives (line 487).
saveToFile(det, o) ==
    LET sha == handleExpectedSha(det.ExpectedSha1, det.ExpectedSha256)
    IN IF o = "createFail" THEN [file |-> NoFile, err |-> "create"]
       ELSE IF o = "copyFail"
       THEN [file |-> [exists |-> TRUE, data |-> <<>>], err |-> "copy"]
       ELSE [file |-> [exists |-> TRUE, data |-> Served],
             err |-> IF Len(sha.expectedSha) > 0 /\ ~det.SkipChecksum
                     THEN validateChecksum(sha.expectedSha, Digest(sha.alg, Served))
                     ELSE NoErr]

\* doDownloadFile (lines 433-459): what it returns, the file it leaves (kept
\* when none is written) and whether it called utils.ExtractArchive.
doDownloadFile(det, isExplode, o, file) ==
    LET ret(resp, redirectUrl, err, f, x) ==
            [resp |-> resp, redirectUrl |-> redirectUrl, err |-> err,
             file |-> f, extracted |-> x]
        sv == saveToFile(det, o)
    IN CASE o = "sendErr"  -> ret(NoUpResp, "", "send", file, FALSE)
         [] o = "cancelled" -> ret(NoUpResp, "", Canceled, file, FALSE)
         [] o = "redirect" -> ret(NoUpResp, "B", "redirect", file, FALSE)
         [] o = "s404"     -> ret([status |-> 404], "", NoErr, file, FALSE)
         [] o = "s503"     -> ret([status |-> StatusServiceUnavailable], "", NoErr,
                                  file, FALSE)
         [] OTHER ->
              IF sv.err # NoErr
              THEN ret([status |-> StatusOK], "", sv.err,
                       IF o = "createFail" THEN file ELSE sv.file, FALSE)
              ELSE IF ~isExplode
              THEN ret([status |-> StatusOK], "", NoErr, sv.file, FALSE)
              ELSE ret([status |-> StatusOK], "",
                       IF o = "extractFail" THEN "extract" ELSE NoErr,
                       sv.file, TRUE)

\* The ExecutionHandler of downloadFile (lines 404-426).
DownloadHandler(resp, redirectUrl, err, followRedirect) ==
    IF err # NoErr /\ ~followRedirect /\ redirectUrl # ""
    THEN [retry |-> FALSE, err |-> err]
    ELSE IF err # NoErr THEN [retry |-> TRUE, err |-> err]
    ELSE IF resp = NoUpResp THEN [retry |-> FALSE, err |-> "empty response"]
    ELSE IF resp.status < 500 THEN [retry |-> FALSE, err |-> NoErr]
    ELSE [retry |-> TRUE, err |-> NoErr]

NoSd == [pc |-> "idle", retries |-> 0, followRedirect |-> TRUE,
         isExplode |-> FALSE,
         details |-> [ExpectedSha1 |-> NoSha, ExpectedSha256 |-> NoSha,
                      SkipChecksum |-> FALSE],
         i |-> 0, resp |-> NoUpResp, redirectUrl |-> "", err |-> NoErr,
         calls |-> 0,        \* calls of doDownloadFile, one GET through Send each
         mismatchAt |-> 0,   \* the first call that ended in a checksum mismatch
         last |-> "none",    \* what the last call met
         file |-> NoFile, extracted |-> 0,
         cancelled |-> FALSE,   \* jc.ctx is cancelled
         callsAfter |-> 0,      \* calls of doDownloadFile begun after a wait
                                \* that the cancellation preceded or cut
         waitsAfter |-> 0]      \* waits that went on to their end after it
SdIdle == sd = NoSd

SdInit ==
    \E r \in 0..MaxRetries : \E f, x \in BOOLEAN : \E det \in FileDetails :
        sd = [NoSd EXCEPT !.pc = "handler", !.retries = r, !.followRedirect = f,
                          !.isExplode = x, !.details = det]

\* One turn of the executor: the handler runs doDownloadFile, the executor
\* stops, or goes on to sleep.  A redirect is refused only when followRedirect
\* is false; the extraction can fail only when it runs.
DownloadAttempt ==
    /\ sd.pc = "handler"
    /\ \E o \in DownloadOutcomes :
          /\ o = "cancelled" <=> sd.cancelled
          /\ o = "redirect" => ~sd.followRedirect
          /\ o = "extractFail" => sd.isExplode
          /\ LET r == doDownloadFile(sd.details, sd.isExplode, o, sd.file)
                 h == DownloadHandler(r.resp, r.redirectUrl, r.err, sd.followRedirect)
                 x == ExecuteAfter(sd.retries, sd.i, h)
             IN sd' = [sd EXCEPT
                         !.resp = r.resp, !.redirectUrl = r.redirectUrl,
                         !.err = IF x.pc = "return" THEN x.err ELSE r.err,
                         !.calls = @ + 1,
                         !.mismatchAt = IF @ = 0 /\ r.err = "checksum mismatch"
                                        THEN sd.calls + 1 ELSE @,
                         !.last = o,
                         !.file = r.file,
                         !.extracted = @ + (IF r.extracted THEN 1 ELSE 0),
                         !.callsAfter = @ + (IF sd.waitsAfter > 0 THEN 1 ELSE 0),
                         !.pc = x.pc]
    /\ UNCHANGED notSd

\* The wait between two attempts.  The executor of downloadFile is given no
\* Context (lines 399-403): the wait ends by time alone.
DownloadSleep ==
    /\ sd.pc = "sleep"
    /\ sd' = [sd EXCEPT !.pc = "handler", !.i = @ + 1,
                        !.waitsAfter = @ + (IF sd.cancelled THEN 1 ELSE 0)]
    /\ UNCHANGED notSd

\* The owner of jc.ctx cancels it while downloadFile runs.
CancelContext ==
    /\ sd.pc \in {"handler", "sleep"}
    /\ ~sd.cancelled
    /\ sd' = [sd EXCEPT !.cancelled = TRUE]
    /\ UNCHANGED notSd

\* Line 430: downloadFile returns resp, redirectUrl and the executor's error.
DownloadReturn ==
    /\ sd.pc = "return"
    /\ sd' = [sd EXCEPT !.pc = "done"]
    /\ UNCHANGED notSd

SdNext == DownloadAttempt \/ DownloadSleep \/ DownloadReturn \/ CancelContext

(***************************************************************************)
(* One chunk worker in full: the executor of downloadFileRange, and under  *)
(* it the GET of doDownloadFileRange, which goes through Send and its own  *)
(* executor (sendGetForFileDownload, line 769).                            *)
(***************************************************************************)
\* What the server answers to one GET of the chunk, or a transport failure.

\* client.Do for the GET: the response and the error.
GetResult(o) ==
    IF o.kind = "status"
    THEN [resp |-> [status |-> o.code, url |-> "A", open |-> TRUE], err |-> "nil"]
    ELSE [resp |-> NoResp, err |-> o.kind]

\* doDownloadFileRange from the return of sendGetForFileDownload on (lines
\* 769-801), the copy succeeding: what it returns for chunk 0.
AfterSend(resp, err, a) ==
    IF err # NoErr
    THEN [fileName |-> NoPath, resp |-> NoChunkResp, err |-> err]
    ELSE IF resp.status # StatusPartialContent
    THEN [fileName |-> NoPath, resp |-> ChunkResp(resp.status, 0), err |-> NoErr]
    ELSE [fileName |-> <<0, a>>, resp |-> ChunkResp(resp.status, 0), err |-> NoErr]

NoCw == [pc |-> "idle", retries |-> 0, icpts |-> <<>>,
         i |-> 0,            \* loop index of the executor of downloadFileRange
         j |-> 0,            \* loop index of the executor of the Send under it
         gets |-> 0,         \* GET requests sent for the chunk
         handlerGets |-> 0,  \* GET requests sent by the current handler call
         stopAt |-> 0,       \* gets when a status below 500, not 206, first came
         stopStatus |-> 0,   \* that status
         chunkPath |-> NoPath, resp |-> NoChunkResp, err |-> NoErr]
CwIdle == cw = NoCw

CwInit ==
    \E r \in 0..MaxRetries : \E ic \in Interceptors :
        cw = [NoCw EXCEPT !.pc = "get", !.retries = r, !.icpts = ic]

\* One GET: the handler of Send takes the answer, its executor waits or
\* returns; when it returns, doDownloadFileRange returns, the handler of
\* downloadFileRange takes that, its executor waits or returns, and on return
\* the worker's slot is written (line 632).
ChunkGet ==
    /\ cw.pc = "get"
    /\ \E o \in {Status(StatusPartialContent), Status(404),
                Status(StatusTooManyRequests),
                Status(StatusServiceUnavailable), NetErr} :
          LET g == GetResult(o)
              x == ExecuteAfter(cw.retries, cw.j, SendHandler(g.resp, g.err, cw.icpts))
              r == AfterSend(g.resp, x.err, cw.i)
              y == ExecuteAfter(cw.retries, cw.i, RangeHandler(r.resp, r.err))
              stop == o.kind = "status" /\ o.code < 500
                      /\ o.code # StatusPartialContent
              counted ==
                  [cw EXCEPT !.gets = @ + 1, !.handlerGets = @ + 1,
                             !.stopAt = IF @ = 0 /\ stop THEN cw.gets + 1 ELSE @,
                             !.stopStatus = IF cw.stopAt = 0 /\ stop THEN o.code ELSE @]
          IN cw' = IF x.pc = "sleep"
                   THEN [counted EXCEPT !.pc = "innerSleep"]
                   ELSE IF y.pc = "sleep"
                   THEN [counted EXCEPT !.pc = "outerSleep"]
                   ELSE [counted EXCEPT !.pc = "return", !.chunkPath = r.fileName,
                                        !.resp = r.resp, !.err = y.err]
    /\ UNCHANGED notCw

\* The wait of the executor of Send, then its next attempt.
ChunkInnerSleep ==
    /\ cw.pc = "innerSleep"
    /\ cw' = [cw EXCEPT !.pc = "get", !.j = @ + 1]
    /\ UNCHANGED notCw

\* The wait of the executor of downloadFileRange, then its next handler call,
\* with a new Send.
ChunkOuterSleep ==
    /\ cw.pc = "outerSleep"
    /\ cw' = [cw EXCEPT !.pc = "get", !.i = @ + 1, !.j = 0, !.handlerGets = 0]
    /\ UNCHANGED notCw

\* downloadFileRange returns (line 751).
ChunkReturn ==
    /\ cw.pc = "return"
    /\ cw' = [cw EXCEPT !.pc = "done"]
    /\ UNCHANGED notCw

CwNext == ChunkGet \/ ChunkInnerSleep \/ ChunkOuterSleep \/ ChunkReturn

(***************************************************************************)
(* The specifications: each runs one part, the other parts idle.           *)
(***************************************************************************)
InitPartition == PartInit /\ ReqIdle /\ SendIdle /\ DlIdle /\ UpIdle /\ SdIdle /\ CwIdle
SpecPartition == InitPartition /\ [][PartNext]_vars

InitRequest == ReqIdle /\ PartIdle /\ SendIdle /\ DlIdle /\ UpIdle /\ SdIdle /\ CwIdle
SpecRequest == InitRequest /\ [][ReqNext]_vars

InitSend == SendInit /\ PartIdle /\ ReqIdle /\ DlIdle /\ UpIdle /\ SdIdle /\ CwIdle
SpecSend == InitSend /\ [][SendNext]_vars

InitDownload == DlInit /\ PartIdle /\ ReqIdle /\ SendIdle /\ UpIdle /\ SdIdle /\ CwIdle
SpecDownload == InitDownload /\ [][DlNext]_vars

\* A call against a server that answers every GET of a chunk alike.
InitFastFail ==
    DlStart(TRUE) /\ PartIdle /\ ReqIdle /\ SendIdle /\ UpIdle /\ SdIdle /\ CwIdle
SpecFastFail == InitFastFail /\ [][DlNext]_vars

InitUpload == UpInit /\ PartIdle /\ ReqIdle /\ SendIdle /\ DlIdle /\ SdIdle /\ CwIdle
SpecUpload == InitUpload /\ [][UpNext]_vars

InitDownloadFile ==
    SdInit /\ PartIdle /\ ReqIdle /\ SendIdle /\ DlIdle /\ UpIdle /\ CwIdle
SpecDownloadFile == InitDownloadFile /\ [][SdNext]_vars

InitChunkWorker ==
    CwInit /\ PartIdle /\ ReqIdle /\ SendIdle /\ DlIdle /\ UpIdle /\ SdIdle
SpecChunkWorker == InitChunkWorker /\ [][CwNext]_vars

PartitionDone == Len(pRanges) = pFlags.SplitCount

\* C1: once every chunk's range is computed, each byte offset of
\* [0, FileSize) lies in exactly one range [start_i, end_i), no range leaves
\* [0, FileSize), every chunk but the last has floor(FileSize/N) bytes and the
\* last one has floor(FileSize/N) + FileSize mod N.
C1_PartitionCoversExactly ==
    PartitionDone =>
        /\ \A b \in 0..(pFlags.FileSize - 1) :
              Cardinality({i \in 1..Len(pRanges) :
                              pRanges[i].start <= b /\ b < pRanges[i].end}) = 1
        /\ \A i \in 1..Len(pRanges) :
              /\ 0 <= pRanges[i].start
              /\ pRanges[i].start <= pRanges[i].end
              /\ pRanges[i].end <= pFlags.FileSize
              /\ pRanges[i].end - pRanges[i].start =
                    (pFlags.FileSize \div pFlags.SplitCount)
                    + (IF i = pFlags.SplitCount
                       THEN pFlags.FileSize % pFlags.SplitCount ELSE 0)

\* A partition of several chunks whose last chunk absorbed a remainder.
C1_Witness ==
    /\ PartitionDone
    /\ pFlags.SplitCount > 1
    /\ pFlags.FileSize % pFlags.SplitCount > 0
    /\ pFlags.FileSize > pFlags.SplitCount

\* The Send calls of a state: those in progress and the one that returned.
AllFrames ==
    {stack[k] : k \in 1..Len(stack)} \cup (IF sOut = NoOut THEN {} ELSE {sOut})

AllInterceptorsPass == \A k \in 1..Len(sIn.interceptors) : sIn.interceptors[k]

\* C5: a run of the retry executor with MaxRetries = R invokes its handler at
\* most R+1 times and sleeps at most R times, only between attempts; a further
\* attempt follows only a handler result with shouldRetry = true, and a run
\* that ends on shouldRetry = false returns that result's error (nil for
\* success). With R = 3, no vetoing interceptor and the answers 503, 503, 200,
\* Send makes exactly three exchanges, sleeps twice and returns the 200
\* response with a nil error.
C5_RetryExecutorBounded ==
    /\ \A f \in AllFrames :
          /\ f.calls <= sIn.retries + 1
          /\ f.waits <= sIn.retries
          /\ f.waits = IF f.pc = "handler" \/ f.calls = 0 THEN f.calls ELSE f.calls - 1
          /\ (f.pc = "sleep" => f.retry)
          /\ (f.pc = "handler" /\ f.calls > 0 => f.retry)
          /\ (f.pc = "return" /\ ~f.retry => f.err = f.derr)
          /\ (f.pc = "return" /\ f.retry =>
                 f.calls = sIn.retries + 1 /\ f.err # "nil")
    /\ (/\ sOut # NoOut
        /\ sIn.retries = 3
        /\ AllInterceptorsPass
        /\ Len(hist) >= 3
        /\ SubSeq(hist, 1, 3) = <<Status(503), Status(503), Status(200)>>)
       => /\ Len(hist) = 3
          /\ sOut.calls = 3
          /\ sOut.waits = 2
          /\ sOut.resp.status = 200
          /\ sOut.err = "nil"

\* Send returned after the answers 503, 503, 200 with three retries allowed.
C5_Witness ==
    /\ sOut # NoOut
    /\ sIn.retries = 3
    /\ hist = <<Status(503), Status(503), Status(200)>>
    /\ sOut.calls = 3

\* C6: after an attempt of Send that got a response and no error, the handler
\* asks for another attempt iff the status is >= 500 or 429 and every
\* pre-retry interceptor returns true; the interceptors are called in order,
\* none when the status is not retry-eligible, and none after the first that
\* returns false.
C6_RetryPredicate ==
    \A f \in AllFrames :
        (f.calls > 0 /\ f.pc # "nested" /\ f.derr = "nil" /\ f.resp # NoResp) =>
            LET ic == sIn.interceptors
                eligible == f.resp.status >= 500 \/ f.resp.status = 429
                vetoes == {k \in 1..Len(ic) : ~ic[k]}
            IN /\ f.retry <=> (eligible /\ vetoes = {})
               /\ f.consulted =
                     IF ~eligible THEN 0
                     ELSE IF vetoes = {} THEN Len(ic)
                     ELSE CHOOSE k \in vetoes : \A j \in vetoes : k <= j

\* A 429 response was retried after both interceptors agreed.
C6_Witness ==
    \E f \in AllFrames :
        /\ f.calls > 0 /\ f.derr = "nil" /\ f.resp.status = 429
        /\ sIn.interceptors = <<TRUE, TRUE>>
        /\ f.consulted = 2 /\ f.retry

\* C8 as stated: a POST with followRedirect = true whose exchange was answered
\* by a redirect is re-issued to the target exactly once for that attempt, with
\* the same body; the target's response is what the call has, the redirectUrl
\* is empty, and the transport's own redirect following is never used for POST.
C8_Original ==
    \A f \in AllFrames :
        /\ (f.method = "POST" => ~f.auto)
        /\ (f.method = "POST" /\ f.followRedirect /\ f.redirected
              /\ f.pc # "nested") =>
                /\ f.reposts = 1
                /\ f.postContent = f.content
                /\ f.redirectUrl = ""
                /\ (f.resp # NoResp => f.resp.url = Other(f.url))

\* C8, amended: the redirected POST is re-issued by one nested Send per
\* attempt, with the same body; that Send retries like any other, so the target
\* receives between 1 and R+1 POSTs for the attempt, and exactly one when its
\* first answer is a status that is not retry-eligible: then the target's
\* response is what the call has, without error. The redirectUrl is empty, and
\* the transport's own redirect following is never used for POST.
C8_RedirectedPostReissued ==
    \A f \in AllFrames :
        /\ (f.method = "POST" => ~f.auto)
        /\ (f.method = "POST" /\ f.followRedirect /\ f.redirected
              /\ f.pc # "nested") =>
                /\ f.sendPosts = 1
                /\ f.postContent = f.content
                /\ 1 <= f.reposts /\ f.reposts <= sIn.retries + 1
                /\ f.redirectUrl = ""
                /\ (f.postFirst.kind = "status" /\ f.postFirst.code < 500
                      /\ f.postFirst.code # 429) =>
                        /\ f.reposts = 1
                        /\ f.resp = [status |-> f.postFirst.code,
                                     url |-> Other(f.url), open |-> FALSE]
                        /\ f.respBody.url = Other(f.url)
                        /\ f.derr = "nil" /\ f.err = "nil"
                        /\ f.pc = "return"

\* Send returned the 200 that B gave to the re-issued POST.
C8_Witness ==
    /\ sOut # NoOut
    /\ sOut.method = "POST" /\ sOut.followRedirect /\ sOut.redirected
    /\ sOut.reposts = 1
    /\ sOut.resp.status = 200 /\ sOut.resp.url = "B"
    /\ hits["B"] = 1

\* C9 as stated: Send with followRedirect = false whose exchange was answered
\* by a redirect returns the target as redirectUrl, a nil body and no error,
\* and sends nothing to the target.
C9_Original ==
    (sOut # NoOut /\ ~sOut.followRedirect /\ sOut.redirected) =>
        /\ sOut.redirectUrl = Other(sOut.url)
        /\ sOut.respBody = NoBody
        /\ sOut.err = "nil"
        /\ hits[Other(sOut.url)] = 0

\* C9, amended: Send with followRedirect = false whose last exchange was
\* answered by a redirect returns the target as redirectUrl, a nil body and the
\* error of the refused redirect; nothing is sent to the target.
C9_BlockedRedirectReported ==
    /\ (sOut # NoOut /\ ~sOut.followRedirect /\ sOut.redirected) =>
          /\ sOut.redirectUrl = Other(sOut.url)
          /\ sOut.respBody = NoBody
          /\ sOut.err = "redirect"
    /\ \A f \in AllFrames : ~f.followRedirect => hits[Other(f.url)] = 0

\* Send returned a refused redirect to B after retrying it.
C9_Witness ==
    /\ sOut # NoOut /\ ~sOut.followRedirect /\ sOut.redirected
    /\ sOut.redirectUrl = "B"
    /\ sOut.err = "redirect"
    /\ hits["A"] > 0

\* C7: right after setAuthentication has run on a fresh request, the request
\* carries the one scheme the first matching rule selects and nothing else:
\* ApiKey+User -> Basic(user, apiKey); ApiKey alone -> X-JFrog-Art-Api;
\* AccessToken that looks like an API key -> Basic(user, token); another
\* AccessToken -> Bearer; Password -> Basic(user, password); none -> no header.
C7_ExactlyOneAuthScheme ==
    (req # NoReq /\ req.op = "doRequest" /\ req.k = 1) =>
        LET d == req.details
            auth == req.headers["Authorization"]
            api == req.headers["X-Jfrog-Art-Api"]
            looksLikeKey ==
                /\ Len(d.AccessToken) >= 73
                /\ SubSeq(d.AccessToken, 1, 5) = "AKCp8"
        IN /\ Len(auth) + Len(api) <= 1
           /\ \A n \in HeaderNames \ {"Authorization", "X-Jfrog-Art-Api"} :
                 req.headers[n] = <<>>
           /\ IF d.ApiKey # "" /\ d.User # ""
              THEN auth = <<(<<"Basic", d.User, d.ApiKey>>)>> /\ api = <<>>
              ELSE IF d.ApiKey # ""
              THEN api = <<(<<d.ApiKey>>)>> /\ auth = <<>>
              ELSE IF d.AccessToken # "" /\ looksLikeKey
              THEN auth = <<(<<"Basic", d.User, d.AccessToken>>)>> /\ api = <<>>
              ELSE IF d.AccessToken # ""
              THEN auth = <<(<<"Bearer", d.AccessToken>>)>> /\ api = <<>>
              ELSE IF d.Password # ""
              THEN auth = <<(<<"Basic", d.User, d.Password>>)>> /\ api = <<>>
              ELSE auth = <<>> /\ api = <<>>

\* setAuthentication has run with an API key, an access token and a password
\* all present and no user: the API-key header alone is set.
C7_Witness ==
    /\ req # NoReq /\ req.op = "doRequest" /\ req.k = 1
    /\ req.details.ApiKey # "" /\ req.details.User = ""
    /\ req.details.AccessToken # "" /\ req.details.Password # ""
    /\ req.headers["X-Jfrog-Art-Api"] # <<>>

\* C10: a request that goes on the wire after SetUberTraceIdToken(T), T not
\* changed while the request was composed, carries exactly one uber-trace-id
\* header, of value T:T:0:0, whatever operation issued it.
C10_EveryRequestCarriesTraceId ==
    (wire # NoReq /\ wire.traceAtNew # <<>> /\ wire.stable) =>
        wire.headers["Uber-Trace-Id"] =
            <<(<<wire.traceAtNew[1] \o ":" \o wire.traceAtNew[1] \o ":0:0">>)>>

\* C16: a request composed by doRequest goes on the wire with every header
\* the caller named in the request details, under the caller's value, also
\* when the name is uber-trace-id and a process-wide trace id is set.
C16_CallerHeadersReachWire ==
    (wire # NoReq /\ wire.op = "doRequest") =>
        \A k \in DOMAIN wire.details.Headers :
            wire.headers[Canon(k)] = <<(<<wire.details.Headers[k]>>)>>

(***************************************************************************)
(* Claims about DownloadFileConcurrently.                                  *)
(***************************************************************************)
MinOf(S) == CHOOSE x \in S : \A y \in S : x <= y
FailedSlots == {i \in Chunks : errorsList[i] # NoErr}
Non206Slots == {i \in Chunks : respList[i] # NoChunkResp
                               /\ respList[i].status # StatusPartialContent}

\* C2: once every started worker is done and downloadChunksConcurrently has
\* returned: if a slot holds an error, the error of the lowest such slot is
\* returned with a nil response, whatever the responses in the other slots;
\* otherwise, if a slot holds a response that is not 206, the response of the
\* lowest such slot is returned with a nil error; otherwise the 206 response
\* of chunk N-1 is returned with a nil error.  The scans never meet a nil slot.
C2_JoinResult ==
    jRes.set =>
        /\ \A i \in Chunks : wpc[i] \in {"unstarted", "done"}
        /\ ~jRes.panic
        /\ IF FailedSlots # {}
           THEN /\ jRes.err = errorsList[MinOf(FailedSlots)]
                /\ jRes.err \in {ChunkErr(MinOf(FailedSlots)), "exhausted"}
                /\ jRes.resp = NoChunkResp
           ELSE IF Non206Slots # {}
           THEN /\ jRes.resp = respList[MinOf(Non206Slots)]
                /\ jRes.resp.chunk = MinOf(Non206Slots)
                /\ jRes.err = NoErr
           ELSE /\ jRes.resp = respList[flags.SplitCount - 1]
                /\ jRes.resp = ChunkResp(StatusPartialContent, flags.SplitCount - 1)
                /\ jRes.err = NoErr

\* The join returned the error of a chunk although a chunk of lower index
\* holds a 404 without error.
C2_Witness ==
    /\ jRes.set
    /\ \E i, j \in Chunks :
          /\ i < j
          /\ respList[i].status = 404
          /\ errorsList[i] = NoErr
          /\ errorsList[j] # NoErr
          /\ jRes.err = errorsList[j]

\* Every call of doDownloadFileRange made so far left its file in the
\* temp directory.
AllAttemptFilesPresent ==
    \A i \in Chunks :
        \A a \in 0..(wi[i] - (IF wpc[i] = "running" THEN 1 ELSE 0)) :
            wpc[i] # "unstarted" => HasFile(tmp, <<i, a>>)

MergedOk ==
    \/ dpc = "explode"
    \/ /\ dpc = "done"
       /\ exploded = 0
       /\ ~dlOut.panic
       /\ dlOut.err = NoErr
       /\ dlOut.resp.status = StatusPartialContent

DestIsResource ==
    /\ dest.exists
    /\ dest.data = Resource(flags.FileSize)
    /\ Len(dest.data) = flags.FileSize

\* The claim as stated: an expected SHA-256 is met under every combination of
\* ExpectedSha1, ExpectedSha256 and SkipChecksum.
C4_Original ==
    MergedOk =>
        /\ DestIsResource
        /\ mflags.ExpectedSha256 # NoSha =>
              Digest("sha256", dest.data) = mflags.ExpectedSha256

\* C4: when the call succeeds against a server that answers each Range
\* request with the requested bytes, the merged destination file holds exactly
\* the FileSize bytes of the resource; unless SkipChecksum is set, its SHA-1
\* equals ExpectedSha1 when that is supplied, and its SHA-256 equals
\* ExpectedSha256 when that is supplied and ExpectedSha1 is not.
C4_MergedFileIsResource ==
    MergedOk =>
        /\ DestIsResource
        /\ ~mflags.SkipChecksum /\ mflags.ExpectedSha1 # NoSha =>
              Digest("sha1", dest.data) = mflags.ExpectedSha1
        /\ ~mflags.SkipChecksum /\ mflags.ExpectedSha1 = NoSha
           /\ mflags.ExpectedSha256 # NoSha =>
              Digest("sha256", dest.data) = mflags.ExpectedSha256

\* A verified SHA-256 download in several chunks, the last one longer, one of
\* them attempted more than once.
C4_Witness ==
    /\ dpc = "done"
    /\ MergedOk
    /\ flags.SplitCount >= 2
    /\ mod(flags) # 0
    /\ \E i \in Chunks : wi[i] >= 1
    /\ mflags.ExpectedSha1 = NoSha
    /\ mflags.ExpectedSha256 # NoSha
    /\ ~mflags.SkipChecksum
    /\ dest.data = Resource(flags.FileSize)

\* The join did not yield a 206 without error.
JoinFailed ==
    /\ jRes.set
    /\ jRes.panic \/ jRes.err # NoErr \/ jRes.resp.status # StatusPartialContent

\* A digest is verified: one is expected and SkipChecksum is not set.
ChecksumInEffect ==
    /\ ~mflags.SkipChecksum
    /\ mflags.ExpectedSha1 # NoSha \/ mflags.ExpectedSha256 # NoSha

\* The expected digest the merge compares with, SHA-1 first.
ExpectedOfDest ==
    IF mflags.ExpectedSha1 # NoSha
    THEN [expected |-> mflags.ExpectedSha1, actual |-> Digest("sha1", dest.data)]
    ELSE [expected |-> mflags.ExpectedSha256, actual |-> Digest("sha256", dest.data)]

\* C13: utils.ExtractArchive is called at most once per call, and only with
\* Explode set, after every chunk gave a 206 without error, all chunks were
\* merged into the destination and the digest in effect, if any, matched; a
\* call that ends with a worker error, a non-206 response, a failure to
\* prepare or merge, or a checksum mismatch has not called it.
C13_ExplodeOnlyAfterVerifiedMerge ==
    /\ exploded <= 1
    /\ exploded = 1 =>
          /\ mflags.Explode
          /\ jRes.set /\ ~JoinFailed
          /\ FailedSlots = {} /\ Non206Slots = {}
          /\ dest.exists /\ dest.data = Resource(flags.FileSize)
          /\ ChecksumInEffect => ExpectedOfDest.actual = ExpectedOfDest.expected
          /\ dlOut.err \in {NoErr, "extract"}
    /\ dpc = "done" /\ (~mflags.Explode \/ JoinFailed
                        \/ dlOut.err \notin {NoErr, "extract"}) => exploded = 0

\* A verified merge of several chunks was extracted and the call returned.
C13_Witness ==
    /\ dpc = "done"
    /\ exploded = 1
    /\ dlOut.err = NoErr
    /\ ChecksumInEffect
    /\ flags.SplitCount >= 2

\* C15: when DownloadFileConcurrently has returned, a non-nil error comes
\* with a nil response and a non-nil response with a nil error.
C15_ErrorImpliesNilResponse ==
    dpc = "done" /\ ~dlOut.panic =>
        (dlOut.err # NoErr => dlOut.resp = NoChunkResp)

RECURSIVE ChunkFilesFrom(_)
ChunkFilesFrom(i) ==
    IF i = flags.SplitCount THEN <<>>
    ELSE FileData(tmp, chunksPaths[i]) \o ChunkFilesFrom(i + 1)

\* mergeChunks returned nil and nothing has been extracted yet.
MergeSucceeded ==
    /\ dpc \in {"explode", "return"}
    /\ jRes.set /\ ~JoinFailed
    /\ dlOut.err = NoErr
    /\ exploded = 0

\* C18: after a successful merge the destination holds the chunk files in
\* ascending index order, each once, and nothing of a file that was at the
\* destination path before; the digest in effect was computed over the same
\* bytes in the same order.
C18_MergeInIndexOrder ==
    MergeSucceeded =>
        /\ \A i \in Chunks : HasFile(tmp, chunksPaths[i])
        /\ dest.exists
        /\ dest.data = ChunkFilesFrom(0)
        /\ \A k \in 1..Len(dest.data) : dest.data[k] = k
        /\ ChecksumInEffect =>
              ExpectedOfDest.expected \in {Digest("sha1", ChunkFilesFrom(0)),
                                           Digest("sha256", ChunkFilesFrom(0))}

\* Several non-empty chunks were merged over an older destination file, with
\* a digest verified.
C18_Witness ==
    /\ MergeSucceeded
    /\ flags.SplitCount >= 2
    /\ \A i \in Chunks : HasFile(tmp, chunksPaths[i])
                         /\ Len(FileData(tmp, chunksPaths[i])) >= 1
    /\ dest0 = OldDest
    /\ ChecksumInEffect

(***************************************************************************)
(* Claims about UploadFile.                                                *)
(***************************************************************************)
\* C11: an attempt that gets a response of a status below 500 other than
\* 200, 201 or 202 is the last one: no wait and no PUT follows it, and
\* UploadFile returns an error holding the status line.
C11_UploadRetriedOnly5xx ==
    \A k \in 1..Len(up.seen) :
        (/\ up.seen[k].kind = "status"
         /\ up.seen[k].code < 500
         /\ up.seen[k].code \notin {StatusOK, StatusCreated, StatusAccepted}) =>
            /\ k = Len(up.seen)
            /\ up.pc \in {"return", "done"}
            /\ up.err = StatusLine(up.seen[k].code)

(***************************************************************************)
(* Claims about downloadFile.                                              *)
(***************************************************************************)
\* C12: once a call of doDownloadFile has ended in a checksum mismatch, the
\* executor makes no further call (no further GET) and downloadFile returns
\* the mismatch error.
C12_ChecksumMismatchIsFatal ==
    sd.mismatchAt > 0 =>
        /\ sd.calls = sd.mismatchAt
        /\ sd.pc \in {"return", "done"}
        /\ sd.err = "checksum mismatch"

\* C14: once jc.ctx is cancelled, the retry executor of downloadFile lets no
\* wait between attempts run to its end, starts no attempt after such a wait,
\* and ends with the cancellation error.
C14_CancelStopsRetryExecutor ==
    sd.cancelled =>
        /\ sd.waitsAfter = 0
        /\ sd.callsAfter = 0
        /\ sd.pc = "done" /\ sd.last = "cancelled" => sd.err = Canceled

(***************************************************************************)
(* Claims about one chunk worker.                                          *)
(***************************************************************************)
\* C19: once a GET of the chunk is answered with a status below 500 other
\* than 206 (404 and 429 among them), no further GET is sent for the chunk
\* and the worker's slot gets that response, a nil error and an empty path.
C19_WorkerStopsBelow500 ==
    cw.stopAt > 0 =>
        /\ cw.gets = cw.stopAt
        /\ cw.pc \in {"return", "done"}
        /\ cw.resp = ChunkResp(cw.stopStatus, 0)
        /\ cw.err = NoErr
        /\ cw.chunkPath = NoPath

\* C20: one call of the handler of downloadFileRange sends one GET, and a
\* chunk is sent at most jc.retries + 1 GETs.
C20_OneGetPerHandlerCall ==
    /\ cw.handlerGets <= 1
    /\ cw.gets <= cw.retries + 1

(***************************************************************************)
(* Claims about the goroutines of downloadChunksConcurrently.              *)
(***************************************************************************)
\* C21: while the wait group is outstanding a worker writes nothing but its
\* own index of chunksPaths, respList and errorsList, so the variables err and
\* resp of the dispatcher keep their zero values; and no variable a worker is
\* about to write is at the same time about to be read by the dispatcher or
\* written by another worker.  A worker that has stored its slots (line 632)
\* and not yet called wg.Done is about to assign err (lines 634-636) or resp
\* (lines 637-639); the dispatcher inside the loop of line 615 is about to
\* read both (lines 618, 621).
C21_ChunkDownloadRaceFree ==
    LET writesErr(i) == wpc[i] = "stored" /\ errorsList[i] # NoErr
        writesResp(i) == /\ wpc[i] = "stored"
                         /\ respList[i] # NoChunkResp
                         /\ respList[i].status # StatusPartialContent
        reads == dpc = "dispatch" /\ di < flags.SplitCount
    IN /\ dpc \in {"dispatch", "wait"} => errG = NoErr /\ respG = NoChunkResp
       /\ \A i \in Chunks :
             /\ writesErr(i) \/ writesResp(i) => ~reads
             /\ \A j \in Chunks \ {i} :
                   /\ ~(writesErr(i) /\ writesErr(j))
                   /\ ~(writesResp(i) /\ writesResp(j))

\* C22: the join reads the slots only when every chunk below the dispatcher's
\* index has been started and is done and every other chunk was never started
\* and its slots hold zero values; the result is the join of the slots as
\* they stay from then on.  A failure stops a peer in one way only: chunks are
\* left unstarted only after a worker reported an error or a response that is
\* not 206.
C22_JoinAfterStartedWorkers ==
    /\ jRes.set =>
          /\ \A i \in Chunks :
                IF i < di
                THEN wpc[i] = "done"
                ELSE /\ wpc[i] = "unstarted"
                     /\ respList[i] = NoChunkResp
                     /\ errorsList[i] = NoErr
                     /\ chunksPaths[i] = NoPath
          /\ jRes = Join(flags.SplitCount, respList, errorsList)
    /\ ((dpc = "wait" \/ jRes.set) /\ di < flags.SplitCount) =>
          \/ errG # NoErr
          \/ respG # NoChunkResp /\ respG.status # StatusPartialContent
    /\ \A i \in Chunks : i < di <=> wpc[i] # "unstarted"

\* Chunk 0 got a 404 at its first attempt; chunk 1, started as well, went
\* through a retry and ended with its 206 before the join returned the 404.
C22_Witness ==
    /\ jRes.set
    /\ flags.SplitCount = 2
    /\ wi[0] = 0 /\ respList[0].status = 404
    /\ wi[1] >= 1 /\ respList[1].status = StatusPartialContent
    /\ errorsList[1] = NoErr
    /\ jRes.resp = ChunkResp(404, 0)

\* C23: a worker that has stored its slots with a nil error has stored a
\* response; when the wait is over and slots are unfilled while no slot holds
\* an error, a response that is not 206 sits at an index below every unfilled
\* slot; the scan of the responses never dereferences a nil slot.
C23_JoinNeverMeetsNilSlot ==
    /\ \A i \in Chunks :
          (wpc[i] \in {"stored", "done"} /\ errorsList[i] = NoErr) =>
              respList[i] # NoChunkResp
    /\ ((dpc = "wait" /\ Wait(wpc)) \/ jRes.set) =>
          LET unfilled == {i \in Chunks : respList[i] = NoChunkResp
                                          /\ errorsList[i] = NoErr}
          IN (FailedSlots = {} /\ unfilled # {}) =>
                /\ Non206Slots # {}
                /\ MinOf(Non206Slots) < MinOf(unfilled)
    /\ jRes.set => ~jRes.panic

\* The dispatcher broke out before chunk 1 on the 404 of chunk 0; no slot
\* holds an error and the join returned the 404.
C23_Witness ==
    /\ jRes.set
    /\ di < flags.SplitCount
    /\ FailedSlots = {}
    /\ \E i \in Chunks : respList[i] = NoChunkResp /\ errorsList[i] = NoErr
    /\ jRes.resp.status = 404
    /\ jRes.err = NoErr

(***************************************************************************)
(* Claims about the recursion and the response bodies of Send.             *)
(***************************************************************************)
\* C24: the recursion doRequest -> SendPost -> Send does not go round a cycle
\* of redirects: no call of Send is in progress for a URL while a nested call
\* for the same URL is, so the depth of the recursion stays within the number
\* of URLs whatever the server answers.
C24_SendRecursionBounded ==
    \A i, j \in 1..Len(stack) :
        i < j => stack[i].url # stack[j].url

\* C25: whatever Send has obtained, no call of Send has let go of a response
\* whose body is open: each body is closed, or is the body of the response the
\* call holds and returns.
C25_NoResponseBodyLeaked ==
    /\ \A k \in 1..Len(stack) : stack[k].dropped = 0
    /\ sOut # NoOut => sOut.dropped = 0

(***************************************************************************)
(* Claims about the Range headers of the chunks.                           *)
(***************************************************************************)
\* C26: once every chunk's range is computed, every chunk's Range header
\* "bytes=start-(end-1)" has its first byte at or before its last if and only
\* if FileSize >= SplitCount; when FileSize < SplitCount, chunk 0 sends
\* "bytes=0--1".
C26_RangesWellFormedIffSizeAtLeastN ==
    PartitionDone =>
        /\ (\A i \in 1..Len(pRanges) :
                pRanges[i].header.first <= pRanges[i].header.last)
              <=> pFlags.FileSize >= pFlags.SplitCount
        /\ pFlags.FileSize < pFlags.SplitCount =>
              pRanges[1].header = [first |-> 0, last |-> -1]

\* Fewer bytes than chunks, yet some: chunk 0 asks for the empty range while
\* the last chunk asks for all the bytes.
C26_Witness ==
    /\ PartitionDone
    /\ 0 < pFlags.FileSize
    /\ pFlags.FileSize < pFlags.SplitCount
    /\ pRanges[1].header.first > pRanges[1].header.last
    /\ pRanges[pFlags.SplitCount].header.first
          <= pRanges[pFlags.SplitCount].header.last

(***************************************************************************)
(* Claims about the fast-fail check of the dispatcher.                     *)
(***************************************************************************)
\* What downloadFileRange returns for chunk i when every call of
\* doDownloadFileRange, from the a-th on, meets the outcome o.
RECURSIVE RunWorker(_, _, _, _, _)
RunWorker(fl, retries, i, a, o) ==
    LET r == doDownloadFileRange(fl, i, a, o)
        x == ExecuteAfter(retries, a, RangeHandler(r.resp, r.err))
    IN IF x.pc = "sleep"
       THEN RunWorker(fl, retries, i, a + 1, o)
       ELSE [resp |-> r.resp, err |-> x.err]

\* C27: with the outcome of each chunk fixed, downloadChunksConcurrently
\* returns what it returns when every worker is started and has finished,
\* whether or not the dispatcher broke out of the loop.
C27_FastFailKeepsOutcome ==
    (jRes.set /\ \A i \in Chunks : fate[i] # "any") =>
        LET w == [i \in Chunks |->
                     RunWorker(flags, jcRetries, i, 0, fate[i])]
        IN jRes = Join(flags.SplitCount, [i \in Chunks |-> w[i].resp],
                       [i \in Chunks |-> w[i].err])

====
